---- MODULE Spec2Model ----
(* LLM reverse proxy (src/main.go): auth middleware, per-provider request
   transformation, forwarding, and buffered / streaming response relay. *)
EXTENDS Integers, Sequences, FiniteSets, TLC

(* ---------- strings ----------
   A header name is a sequence of one-character strings, so that
   strings.ToLower and header-key canonicalisation are computed, not assumed.
   A header value, a URL, a body is a sequence of atoms (string pieces). *)
UpperLetters ==
    <<"A", "B", "C", "D", "E", "F", "G", "H", "I", "J", "K", "L", "M", "N", "O", "P", "Q", "R", "S", "T", "U", "V", "W", "X", "Y", "Z">>
LowerLetters ==
    <<"a", "b", "c", "d", "e", "f", "g", "h", "i", "j", "k", "l", "m", "n", "o", "p", "q", "r", "s", "t", "u", "v", "w", "x", "y", "z">>

N_Host == <<"H", "o", "s", "t">>
N_HOST == <<"H", "O", "S", "T">>
N_host == <<"h", "o", "s", "t">>
N_Authorization == <<"A", "u", "t", "h", "o", "r", "i", "z", "a", "t", "i", "o", "n">>
N_xapikey == <<"x", "-", "a", "p", "i", "-", "k", "e", "y">>
N_ContentLength == <<"C", "o", "n", "t", "e", "n", "t", "-", "L", "e", "n", "g", "t", "h">>
N_Connection == <<"C", "o", "n", "n", "e", "c", "t", "i", "o", "n">>
N_Accept == <<"A", "c", "c", "e", "p", "t">>
N_AnthropicBeta == <<"A", "n", "t", "h", "r", "o", "p", "i", "c", "-", "B", "e", "t", "a">>
N_anthropicbeta == <<"a", "n", "t", "h", "r", "o", "p", "i", "c", "-", "b", "e", "t", "a">>
N_anthropicversion == <<"a", "n", "t", "h", "r", "o", "p", "i", "c", "-", "v", "e", "r", "s", "i", "o", "n">>
N_ContentType == <<"C", "o", "n", "t", "e", "n", "t", "-", "T", "y", "p", "e">>
N_XProxyAuth == <<"X", "-", "P", "r", "o", "x", "y", "-", "A", "u", "t", "h">>
N_xproxyauth == <<"x", "-", "p", "r", "o", "x", "y", "-", "a", "u", "t", "h">>
N_CacheControl == <<"C", "a", "c", "h", "e", "-", "C", "o", "n", "t", "r", "o", "l">>
N_XAccelBuffering == <<"X", "-", "A", "c", "c", "e", "l", "-", "B", "u", "f", "f", "e", "r", "i", "n", "g">>
N_XRequestId == <<"X", "-", "R", "e", "q", "u", "e", "s", "t", "-", "I", "d">>

(* The exclusion set of the header copy loop, as the lower-case literals it
   compares against. *)
L_host == <<"h", "o", "s", "t">>
L_authorization == <<"a", "u", "t", "h", "o", "r", "i", "z", "a", "t", "i", "o", "n">>
L_xproxyauth == <<"x", "-", "p", "r", "o", "x", "y", "-", "a", "u", "t", "h">>
L_xapikey == <<"x", "-", "a", "p", "i", "-", "k", "e", "y">>
L_contentlength == <<"c", "o", "n", "t", "e", "n", "t", "-", "l", "e", "n", "g", "t", "h">>
L_connection == <<"c", "o", "n", "n", "e", "c", "t", "i", "o", "n">>

UpperToLower ==
    [c \in {UpperLetters[i] : i \in 1..Len(UpperLetters)} |->
        LowerLetters[CHOOSE i \in 1..Len(UpperLetters) : UpperLetters[i] = c]]
LowerToUpper ==
    [c \in {LowerLetters[i] : i \in 1..Len(LowerLetters)} |->
        UpperLetters[CHOOSE i \in 1..Len(LowerLetters) : LowerLetters[i] = c]]
ToLowerChar(c) == IF c \in DOMAIN UpperToLower THEN UpperToLower[c] ELSE c
ToUpperChar(c) == IF c \in DOMAIN LowerToUpper THEN LowerToUpper[c] ELSE c

(* strings.ToLower *)
ToLower(s) == [i \in 1..Len(s) |-> ToLowerChar(s[i])]

(* Header-key canonical form (fasthttp's key normalisation on the inbound side,
   net/http's CanonicalMIMEHeaderKey on the outbound side): the first letter and
   every letter after a "-" in upper case, all others in lower case. *)
CanonicalKey(s) ==
    [i \in 1..Len(s) |->
        IF i = 1 \/ s[i - 1] = "-" THEN ToUpperChar(s[i]) ELSE ToLowerChar(s[i])]

(* strings.Contains *)
Contains(s, sub) ==
    \E i \in 0..(Len(s) - Len(sub)) : SubSeq(s, i + 1, i + Len(sub)) = sub

(* ---------- literals of the program ---------- *)
SSE == <<"text/event-stream">>
JSONType == <<"application/json">>
AnthropicVersion == <<"2023-06-01">>
BearerPrefix == <<"Bearer ">>
NotConfigured == <<" not configured">>
EmptyString == <<>>

Providers == {"openai", "nebius", "deepseek", "anthropic"}

(* The routes registered in main: provider |-> (targetBase, apiKeyEnv). *)
TargetBase(p) ==
    CASE p = "openai" -> <<"https://api.openai.com">>
      [] p = "nebius" -> <<"https://api.studio.nebius.ai">>
      [] p = "deepseek" -> <<"https://api.deepseek.com">>
      [] p = "anthropic" -> <<"https://api.anthropic.com">>
ApiKeyEnv(p) ==
    CASE p = "openai" -> "OPENAI_API_KEY"
      [] p = "nebius" -> "NEBIUS_API_KEY"
      [] p = "deepseek" -> "DEEPSEEK_API_KEY"
      [] p = "anthropic" -> "ANTHROPIC_API_KEY"
EnvNames == {ApiKeyEnv(p) : p \in Providers}

(* PROXY_AUTH_TOKEN: main refuses to start when it is empty. *)
authToken == <<"s3cret">>

(* ---------- bounds and input sets ---------- *)
MaxHdrs == 2
MaxRespHdrs == 2
MaxBody == 3

(* The value a set credential has. *)
KeyValue(e) == <<"sk-", e>>

(* Process environments: which credentials are configured. *)
CredentialConfigs ==
    { [e \in EnvNames |-> IF e \in S THEN KeyValue(e) ELSE EmptyString] :
        S \in { EnvNames,
                {"OPENAI_API_KEY", "ANTHROPIC_API_KEY"},
                {"NEBIUS_API_KEY", "DEEPSEEK_API_KEY"} } }

Hdr(n, v) == [name |-> n, value |-> v]

(* Header lines a client may send besides the auth header. A request carries
   up to MaxHdrs of them, in the order of this list (some lines occur twice in
   it, so that repeated headers arrive in either order). *)
HeaderPool ==
    << Hdr(N_Host, <<"evil.example">>), Hdr(N_HOST, <<"evil.example">>),
       Hdr(N_host, <<"evil.example">>),
       Hdr(N_Authorization, <<"Bearer ", "client">>),
       Hdr(N_xapikey, <<"client-key">>),
       Hdr(N_ContentLength, <<"999">>),
       Hdr(N_Connection, <<"close">>),
       Hdr(N_Accept, JSONType),
       Hdr(N_Accept, <<"application/json", ", ", "text/event-stream">>),
       Hdr(N_Accept, JSONType),
       Hdr(N_AnthropicBeta, EmptyString),
       Hdr(N_AnthropicBeta, <<"b1">>),
       Hdr(N_anthropicbeta, <<"b2">>),
       Hdr(N_AnthropicBeta, EmptyString),
       Hdr(N_anthropicversion, <<"2020-01-01">>),
       Hdr(N_ContentType, <<"text/plain">>),
       Hdr(N_ContentType, <<"text/csv">>) >>

SeqsUpTo(S, n) == UNION { [1..k -> S] : k \in 0..n }

(* The i-th smallest element of a set of numbers. *)
Nth(I, i) == CHOOSE x \in I : Cardinality({y \in I : y < x}) = i - 1
(* The subsequences of pool with at most n elements. *)
SubSeqsUpTo(pool, n) ==
    { [i \in 1..Cardinality(I) |-> pool[Nth(I, i)]] :
        I \in { J \in SUBSET (1..Len(pool)) : Cardinality(J) <= n } }

HeaderLists == SubSeqsUpTo(HeaderPool, MaxHdrs)

(* The auth header line of a request: absent, wrong, or the secret (under two
   spellings of the header name). *)
AuthLines ==
    { <<>>, <<Hdr(N_XProxyAuth, <<"wrong">>)>>,
      <<Hdr(N_XProxyAuth, authToken)>>, <<Hdr(N_xproxyauth, authToken)>> }

(* Method, path remainder (c.Params("*")) and body of a proxied request. The
   remainder "%zz" is an invalid percent-escape: url.Parse rejects the target. *)
Shapes ==
    { [method |-> "GET", path |-> <<"v1", "/", "models">>, body |-> EmptyString],
      [method |-> "POST", path |-> <<"v1", "/", "messages">>, body |-> <<"{", "}">>],
      [method |-> "POST", path |-> <<"%zz">>, body |-> <<"{", "}">>] }

InboundRequests ==
    { [route |-> p, method |-> s.method, path |-> s.path, body |-> s.body,
       headers |-> a \o h] :
        p \in Providers, s \in Shapes, a \in AuthLines, h \in HeaderLists }
    \cup
    { [route |-> "health", method |-> "GET", path |-> EmptyString,
       body |-> EmptyString, headers |-> a] : a \in AuthLines }

(* ---------- inbound header access (fiber / fasthttp) ---------- *)
(* Header lines as stored after parsing: every name in canonical form. *)
ParseHeaders(wire) ==
    [i \in 1..Len(wire) |-> Hdr(CanonicalKey(wire[i].name), wire[i].value)]

(* c.Get(key) on parsed headers: the first value stored under the key in
   canonical form; "" when the header is absent. *)
Get(hs, key) ==
    LET ck == CanonicalKey(key)
        idx == { i \in 1..Len(hs) : hs[i].name = ck }
    IN  IF idx = {} THEN EmptyString
        ELSE hs[CHOOSE i \in idx : \A j \in idx : i <= j].value

RECURSIVE ValuesOf(_, _)
ValuesOf(hs, k) ==
    IF hs = <<>> THEN <<>>
    ELSE IF Head(hs).name = k
         THEN <<Head(hs).value>> \o ValuesOf(Tail(hs), k)
         ELSE ValuesOf(Tail(hs), k)

(* c.GetReqHeaders() on parsed headers: key |-> its values in arrival order. *)
GetReqHeaders(hs) ==
    [k \in {hs[i].name : i \in 1..Len(hs)} |-> ValuesOf(hs, k)]

(* ---------- outbound headers (net/http Header) ---------- *)
(* Header.Set: the key, in canonical form, gets the single value v. *)
HeaderSet(h, key, v) ==
    LET ck == CanonicalKey(key)
    IN  [k \in DOMAIN h \cup {ck} |-> IF k = ck THEN <<v>> ELSE h[k]]

(* Header.Values, and Header.Get (the first value, "" when absent). *)
HeaderValues(h, key) ==
    LET ck == CanonicalKey(key) IN IF ck \in DOMAIN h THEN h[ck] ELSE <<>>
HeaderGet(h, key) ==
    LET vs == HeaderValues(h, key) IN IF vs = <<>> THEN EmptyString ELSE vs[1]

(* Mutation of IsExcluded: the shorter list of an earlier revision. *)
IsExcludedShort(lowerKey) ==
    \/ lowerKey = L_host
    \/ lowerKey = L_authorization
    \/ lowerKey = L_xproxyauth
    \/ lowerKey = L_xapikey

(* The test of the copy loop on lowerKey. *)
IsExcluded(lowerKey) ==
    \/ lowerKey = L_host
    \/ lowerKey = L_authorization
    \/ lowerKey = L_xproxyauth
    \/ lowerKey = L_xapikey
    \/ lowerKey = L_contentlength
    \/ lowerKey = L_connection

(* Mutation of CopyHeaders: of a repeated header only the first value is added. *)
CopyHeadersFirstOnly(m) ==
    LET kept == { k \in DOMAIN m : ~IsExcluded(ToLower(k)) }
    IN  [ck \in {CanonicalKey(k) : k \in kept} |->
            <<Head(m[CHOOSE k \in kept : CanonicalKey(k) = ck])>>]

(* The header copy loop: every key of GetReqHeaders that is not excluded is
   added, value by value, under its canonical key. *)
CopyHeaders(m) ==
    LET kept == { k \in DOMAIN m : ~IsExcluded(ToLower(k)) }
    IN  [ck \in {CanonicalKey(k) : k \in kept} |->
            m[CHOOSE k \in kept : CanonicalKey(k) = ck]]

(* Mutation of InjectCredential: the bearer strategy for every provider. *)
InjectBearerAlways(h, provider, apiKey, inHdrs) ==
    HeaderSet(h, N_Authorization, BearerPrefix \o apiKey)

(* Credential injection by provider. *)
InjectCredential(h, provider, apiKey, inHdrs) ==
    IF provider = "anthropic"
    THEN LET h1 == HeaderSet(h, N_xapikey, apiKey)
             h2 == HeaderSet(h1, N_anthropicversion, AnthropicVersion)
             beta == Get(inHdrs, N_AnthropicBeta)
         IN  IF beta # EmptyString THEN HeaderSet(h2, N_anthropicbeta, beta) ELSE h2
    ELSE HeaderSet(h, N_Authorization, BearerPrefix \o apiKey)

(* The headers of the outbound request. *)
OutboundHeaders(inHdrs, provider, apiKey) ==
    InjectCredential(
        HeaderSet(CopyHeaders(GetReqHeaders(inHdrs)), N_ContentType, JSONType),
        provider, apiKey, inHdrs)

(* Mutation of TargetURL: the separator is left out. *)
TargetURLNoSlash(provider, path) == TargetBase(provider) \o path

TargetURL(provider, path) == TargetBase(provider) \o <<"/">> \o path

(* http.NewRequestWithContext fails when the target does not parse. *)
ValidURL(url) == \A i \in 1..Len(url) : url[i] # "%zz"

(* ---------- client response (fiber Ctx response) ---------- *)
JsonBody(k, text) == [kind |-> "json", key |-> k, text |-> text]
RawBody(bytes) == [kind |-> "raw", key |-> "", text |-> bytes]

(* c.Status(code).JSON(fiber.Map{key: text}) on a response holding headers hs. *)
JsonResponse(hs, code, k, text) ==
    [status |-> code, headers |-> HeaderSet(hs, N_ContentType, JSONType),
     body |-> JsonBody(k, text)]

NoResponse == [status |-> 0, headers |-> <<>>, body |-> RawBody(EmptyString)]
NoRequest ==
    [route |-> "none", method |-> "", path |-> EmptyString, body |-> EmptyString,
     headers |-> <<>>]
NoOutbound ==
    [built |-> FALSE, method |-> "", url |-> EmptyString, body |-> EmptyString,
     header |-> <<>>]
NoUpstream == [status |-> 0, headers |-> <<>>, body |-> EmptyString, fail |-> FALSE]

(* ---------- state ---------- *)
VARIABLES
    env,            \* os.Getenv: credential name |-> value ("" when unset)
    pc,             \* where the request is: idle, transformed, forwarded, streaming, complete
    stages,         \* the stages the current request went through, in order
    inbound,        \* the inbound request while the handler reads it
    outbound,       \* req: the outbound request built by proxyHandler
    isStreaming,    \* the handler's local isStreaming
    calls,          \* upstream calls made for the current request
    upstream,       \* resp: the upstream response
    client,         \* the response the client gets: status, headers, body delivered
    bodyClosed,     \* resp.Body.Close() has run
    bodyDone,       \* a read of resp.Body returned end-of-input or the upstream's error
    handlerReturned,\* the handler has returned (its deferred calls have run)
    spc,            \* stream writer callback: none, read, write, flush, done
    fetched,        \* bytes of the upstream body taken by the bufio.Reader
    rbuf,           \* bytes buffered in the bufio.Reader
    line,           \* the callback's local line
    wbuf,           \* bytes written to w and not yet flushed
    lineFlushes,    \* flushes of w since line was read
    streamEnd,      \* why the copy loop ended: "", eof, read, write, flush
    clientGone      \* the client has disconnected

reqVars == <<inbound, outbound, isStreaming, calls>>
streamVars == <<spc, fetched, rbuf, line, wbuf, lineFlushes, streamEnd>>
vars == <<env, pc, stages, inbound, outbound, isStreaming, calls, upstream, client,
          bodyClosed, bodyDone, handlerReturned, spc, fetched, rbuf, line, wbuf,
          lineFlushes, streamEnd, clientGone>>

Init ==
    /\ env \in CredentialConfigs
    /\ pc = "idle"
    /\ stages = <<>>
    /\ inbound = NoRequest
    /\ outbound = NoOutbound
    /\ isStreaming = FALSE
    /\ calls = 0
    /\ upstream = NoUpstream
    /\ client = NoResponse
    /\ bodyClosed = FALSE
    /\ bodyDone = FALSE
    /\ handlerReturned = FALSE
    /\ spc = "none"
    /\ fetched = 0
    /\ rbuf = <<>>
    /\ line = <<>>
    /\ wbuf = <<>>
    /\ lineFlushes = 0
    /\ streamEnd = ""
    /\ clientGone = FALSE

(* ---------- the request up to httpClient.Do ---------- *)
(* Mutation of Authorized: any non-empty token passes. *)
AuthorizedAnyToken(r) == Get(ParseHeaders(r.headers), N_XProxyAuth) # EmptyString

(* Mutation of Authorized: no route is guarded. *)
AuthorizedAlways(r) == TRUE

(* The auth middleware's test. *)
Authorized(r) == Get(ParseHeaders(r.headers), N_XProxyAuth) = authToken

(* Mutation of ApiKey: one credential read for every provider. *)
ApiKeyOpenAI(r) == env["OPENAI_API_KEY"]

(* apiKey := os.Getenv(apiKeyEnv) *)
ApiKey(r) == env[ApiKeyEnv(r.route)]

(* The request proxyHandler builds for an authorized request to a provider. *)
BuildRequest(r) ==
    [built |-> TRUE, method |-> r.method, url |-> TargetURL(r.route, r.path),
     body |-> r.body,
     header |-> OutboundHeaders(ParseHeaders(r.headers), r.route, ApiKey(r))]

(* isStreaming := strings.Contains(c.Get("Accept"), "text/event-stream") *)
AcceptsStream(r) == Contains(Get(ParseHeaders(r.headers), N_Accept), SSE)

(* The handler's outcome before any upstream call: the stages run, the response
   written (if the request ends here) and the outbound request (if it goes on). *)
Handle(r) ==
    IF ~Authorized(r)
    THEN [stages |-> <<"RECEIVED", "REJECTED_AUTH">>, done |-> TRUE,
          response |-> JsonResponse(<<>>, 401, "error", <<"Unauthorized">>),
          req |-> NoOutbound]
    ELSE IF r.route = "health"
    THEN [stages |-> <<"RECEIVED", "AUTHENTICATED", "HEALTH">>, done |-> TRUE,
          response |-> JsonResponse(<<>>, 200, "status", <<"ok">>),
          req |-> NoOutbound]
    ELSE IF ApiKey(r) = EmptyString
    THEN [stages |-> <<"RECEIVED", "AUTHENTICATED", "ROUTED", "REJECTED_CONFIG">>,
          done |-> TRUE,
          response |-> JsonResponse(<<>>, 500, "error",
                                    <<ApiKeyEnv(r.route)>> \o NotConfigured),
          req |-> NoOutbound]
    ELSE IF ~ValidURL(TargetURL(r.route, r.path))
    THEN [stages |-> <<"RECEIVED", "AUTHENTICATED", "ROUTED", "REJECTED_BUILD">>,
          done |-> TRUE,
          response |-> JsonResponse(<<>>, 500, "error",
                                    <<"Failed to create request: ", "parse error">>),
          req |-> NoOutbound]
    ELSE [stages |-> <<"RECEIVED", "AUTHENTICATED", "ROUTED", "TRANSFORMED">>,
          done |-> FALSE,
          response |-> NoResponse,
          req |-> BuildRequest(r)]

(* An inbound request arrives and runs through the middleware and the routed
   handler, up to the call of httpClient.Do. *)
Receive ==
    /\ pc = "idle"
    /\ \E r \in InboundRequests : \E h \in {Handle(r)} :
        /\ inbound' = r
        /\ stages' = h.stages
        /\ outbound' = h.req
        /\ client' = h.response
        /\ isStreaming' = (~h.done /\ AcceptsStream(r))
        /\ pc' = IF h.done THEN "complete" ELSE "transformed"
        /\ handlerReturned' = h.done
    /\ calls' = 0
    /\ UNCHANGED <<env, upstream, bodyClosed, bodyDone, streamVars, clientGone>>

(* ---------- the upstream call ---------- *)
(* httpClient.Do sends the request; the handler blocks until the response
   headers arrive. The request objects are not read again after this point. *)
Do ==
    /\ pc = "transformed"
    /\ calls' = calls + 1
    /\ outbound' = NoOutbound
    /\ inbound' = NoRequest
    /\ pc' = "forwarded"
    /\ UNCHANGED <<env, stages, isStreaming, upstream, client, bodyClosed, bodyDone,
                   handlerReturned, streamVars, clientGone>>

LastOf(sq) == IF sq = <<>> THEN "" ELSE sq[Len(sq)]

(* err.Error() of a failed httpClient.Do. *)
TransportErrors == {"dial tcp: connection refused", "context deadline exceeded"}

(* Mutation of DoFails: the 502 is written but the handler does not return
   and goes on to the relay. *)
DoFailsNoReturn ==
    /\ pc = "forwarded"
    /\ LastOf(stages) # "REJECTED_UPSTREAM"
    /\ \E e \in TransportErrors :
        client' = JsonResponse(<<>>, 502, "error", <<"Failed to proxy request: ", e>>)
    /\ stages' = Append(stages, "REJECTED_UPSTREAM")
    /\ UNCHANGED <<env, pc, reqVars, upstream, bodyClosed, bodyDone, handlerReturned,
                   streamVars, clientGone>>

(* Mutation of DoFails: a failed call is retried once before the 502. *)
DoFailsRetry ==
    /\ pc = "forwarded"
    /\ IF calls < 2
       THEN /\ pc' = "transformed"
            /\ UNCHANGED <<client, stages, handlerReturned>>
       ELSE /\ \E e \in TransportErrors :
                 client' = JsonResponse(<<>>, 502, "error",
                                        <<"Failed to proxy request: ", e>>)
            /\ stages' = Append(stages, "REJECTED_UPSTREAM")
            /\ handlerReturned' = TRUE
            /\ pc' = "complete"
    /\ UNCHANGED <<env, reqVars, upstream, bodyClosed, bodyDone, streamVars, clientGone>>

(* httpClient.Do returns an error: 502 with the error text. *)
DoFails ==
    /\ pc = "forwarded"
    /\ \E e \in TransportErrors :
        client' = JsonResponse(<<>>, 502, "error", <<"Failed to proxy request: ", e>>)
    /\ stages' = Append(stages, "REJECTED_UPSTREAM")
    /\ handlerReturned' = TRUE
    /\ pc' = "complete"
    /\ UNCHANGED <<env, reqVars, upstream, bodyClosed, bodyDone, streamVars, clientGone>>

(* Responses the upstream may give. fail: the body's stream ends with a read
   error after its bytes instead of end-of-input. *)
RespHeaderPool ==
    << Hdr(N_ContentType, <<"text/event-stream", "; charset=utf-8">>),
       Hdr(N_ContentType, JSONType),
       Hdr(N_ContentType, <<"text/event-stream", "; charset=utf-8">>),
       Hdr(N_CacheControl, <<"max-age=60">>),
       Hdr(N_XAccelBuffering, <<"yes">>),
       Hdr(N_Connection, <<"close">>),
       Hdr(N_XRequestId, <<"r1">>) >>
BodyBytes == {"d", "\n"}
UpstreamResponses ==
    [status : {200, 429}, headers : SubSeqsUpTo(RespHeaderPool, MaxRespHdrs),
     body : SeqsUpTo(BodyBytes, MaxBody), fail : BOOLEAN]

(* resp.Header: canonical key |-> values. *)
RespHeader(resp) == GetReqHeaders(ParseHeaders(resp.headers))

(* Response header keys the client response stores once: adding a value under
   one of them replaces the value it had (fasthttp's ResponseHeader.Add). *)
SetOnceKeys == {N_ContentType, N_Connection}

RECURSIVE AddValues(_, _, _)
AddValues(vs, k, rest) ==
    IF rest = <<>> THEN vs
    ELSE AddValues(IF k \in SetOnceKeys THEN <<Head(rest)>> ELSE Append(vs, Head(rest)),
                   k, Tail(rest))

(* The response header copy loop: c.Response().Header.Add(k, val) for every
   value of every key of resp.Header. *)
CopyResponseHeaders(m) == [k \in DOMAIN m |-> AddValues(<<>>, k, m[k])]

(* Mutation of StreamingMode: the request's Accept is not consulted. *)
StreamingModeResponseOnly(streamingReq, resp) ==
    Contains(HeaderGet(RespHeader(resp), N_ContentType), SSE)

(* The relay mode test. *)
StreamingMode(streamingReq, resp) ==
    streamingReq /\ Contains(HeaderGet(RespHeader(resp), N_ContentType), SSE)

(* Mutation of StreamingHeaders: only the media type is declared. *)
StreamingHeadersTypeOnly(copied) == HeaderSet(copied, N_ContentType, SSE)

(* The headers of a streaming response: the copied ones, then the four c.Set. *)
StreamingHeaders(copied) ==
    HeaderSet(HeaderSet(HeaderSet(HeaderSet(copied,
        N_ContentType, SSE),
        N_CacheControl, <<"no-cache">>),
        N_Connection, <<"keep-alive">>),
        N_XAccelBuffering, <<"no">>)

(* The upstream answers and the handler relays in buffered mode: copy headers
   and status, io.ReadAll, c.Send (or 500 when the read fails), return. *)
RespondBuffered ==
    /\ pc = "forwarded"
    /\ \E resp \in UpstreamResponses :
        /\ ~StreamingMode(isStreaming, resp)
        /\ upstream' = resp
        /\ client' = IF resp.fail
                     THEN JsonResponse(CopyResponseHeaders(RespHeader(resp)), 500,
                                       "error",
                                       <<"Failed to read response: ", "read error">>)
                     ELSE [status |-> resp.status,
                           headers |-> CopyResponseHeaders(RespHeader(resp)),
                           body |-> RawBody(resp.body)]
        /\ stages' = stages \o <<"FORWARDED", "BUFFERED",
                                  IF resp.fail THEN "REJECTED_READ" ELSE "COMPLETE">>
    /\ bodyDone' = TRUE
    /\ bodyClosed' = TRUE
    /\ handlerReturned' = TRUE
    /\ pc' = "complete"
    /\ UNCHANGED <<env, reqVars, streamVars, clientGone>>

(* The upstream answers and the handler enters streaming mode: copy headers and
   status, set the streaming headers, register the stream writer (which starts
   the callback on its own goroutine). The handler is left at "return nil". *)
RespondStreaming ==
    /\ pc = "forwarded"
    /\ \E resp \in UpstreamResponses :
        /\ StreamingMode(isStreaming, resp)
        /\ upstream' = resp
        /\ client' = [status |-> resp.status,
                      headers |-> StreamingHeaders(CopyResponseHeaders(RespHeader(resp))),
                      body |-> RawBody(EmptyString)]
    /\ stages' = stages \o <<"FORWARDED", "STREAMING">>
    /\ spc' = "read"
    /\ pc' = "streaming"
    /\ UNCHANGED <<env, reqVars, bodyClosed, bodyDone, handlerReturned, fetched, rbuf,
                   line, wbuf, lineFlushes, streamEnd, clientGone>>

(* The handler returns nil; its deferred resp.Body.Close() runs. *)
HandlerReturn ==
    /\ pc = "streaming"
    /\ ~handlerReturned
    /\ handlerReturned' = TRUE
    /\ bodyClosed' = TRUE
    /\ UNCHANGED <<env, pc, stages, reqVars, upstream, client, bodyDone, streamVars,
                   clientGone>>

(* Mutation of ClientDisconnect: the disconnect cancels the upstream call. *)
ClientDisconnectCancels ==
    /\ pc = "streaming"
    /\ spc # "done"
    /\ ~clientGone
    /\ clientGone' = TRUE
    /\ bodyClosed' = TRUE
    /\ UNCHANGED <<env, pc, stages, reqVars, upstream, client, bodyDone,
                   handlerReturned, streamVars>>

(* The client goes away while the response is streamed. *)
ClientDisconnect ==
    /\ pc = "streaming"
    /\ spc # "done"
    /\ ~clientGone
    /\ clientGone' = TRUE
    /\ UNCHANGED <<env, pc, stages, reqVars, upstream, client, bodyClosed, bodyDone,
                   handlerReturned, streamVars>>

(* ---------- the stream writer callback ---------- *)
HasNewline(s) == \E i \in 1..Len(s) : s[i] = "\n"
FirstNewline(s) == CHOOSE i \in 1..Len(s) : s[i] = "\n" /\ \A j \in 1..(i - 1) : s[j] # "\n"

(* strings.TrimSpace(line) == "" *)
IsBlank(s) == \A i \in 1..Len(s) : s[i] \in {"\n", " "}

(* reader.ReadString needs more bytes and the body delivers some. *)
StreamFill ==
    /\ pc = "streaming" /\ spc = "read"
    /\ ~HasNewline(rbuf)
    /\ ~bodyClosed
    /\ fetched < Len(upstream.body)
    /\ \E n \in 1..(Len(upstream.body) - fetched) :
        /\ rbuf' = rbuf \o SubSeq(upstream.body, fetched + 1, fetched + n)
        /\ fetched' = fetched + n
    /\ UNCHANGED <<env, pc, stages, reqVars, upstream, client, bodyClosed, bodyDone,
                   handlerReturned, spc, line, wbuf, lineFlushes, streamEnd, clientGone>>

(* reader.ReadString returns a line, its newline included. *)
StreamReadLine ==
    /\ pc = "streaming" /\ spc = "read"
    /\ HasNewline(rbuf)
    /\ line' = SubSeq(rbuf, 1, FirstNewline(rbuf))
    /\ rbuf' = SubSeq(rbuf, FirstNewline(rbuf) + 1, Len(rbuf))
    /\ lineFlushes' = 0
    /\ spc' = "write"
    /\ UNCHANGED <<env, pc, stages, reqVars, upstream, client, bodyClosed, bodyDone,
                   handlerReturned, fetched, wbuf, streamEnd, clientGone>>

(* Mutation of StreamReadEnd: the read error is recorded and the loop goes on. *)
StreamReadEndNoBreak ==
    /\ pc = "streaming" /\ spc = "read"
    /\ ~HasNewline(rbuf)
    /\ bodyClosed \/ fetched = Len(upstream.body)
    /\ streamEnd = ""
    /\ streamEnd' = IF ~bodyClosed /\ ~upstream.fail THEN "eof" ELSE "read"
    /\ bodyDone' = (bodyDone \/ ~bodyClosed)
    /\ UNCHANGED <<env, pc, stages, reqVars, upstream, client, bodyClosed, spc,
                   handlerReturned, fetched, rbuf, line, wbuf, lineFlushes, clientGone>>

(* reader.ReadString returns an error (end-of-input, the upstream's read error,
   or a read of the closed body): the loop breaks; what ReadString returned
   with the error is not written. *)
StreamReadEnd ==
    /\ pc = "streaming" /\ spc = "read"
    /\ ~HasNewline(rbuf)
    /\ bodyClosed \/ fetched = Len(upstream.body)
    /\ streamEnd' = IF ~bodyClosed /\ ~upstream.fail THEN "eof" ELSE "read"
    /\ bodyDone' = (bodyDone \/ ~bodyClosed)
    /\ spc' = "done"
    /\ UNCHANGED <<env, pc, stages, reqVars, upstream, client, bodyClosed,
                   handlerReturned, fetched, rbuf, line, wbuf, lineFlushes, clientGone>>

(* w.WriteString(line) *)
StreamWrite ==
    /\ pc = "streaming" /\ spc = "write"
    /\ wbuf' = wbuf \o line
    /\ spc' = "flush"
    /\ UNCHANGED <<env, pc, stages, reqVars, upstream, client, bodyClosed, bodyDone,
                   handlerReturned, fetched, rbuf, line, lineFlushes, streamEnd,
                   clientGone>>

(* w.WriteString(line) fails: the loop breaks. *)
StreamWriteFails ==
    /\ pc = "streaming" /\ spc = "write"
    /\ clientGone
    /\ streamEnd' = "write"
    /\ spc' = "done"
    /\ UNCHANGED <<env, pc, stages, reqVars, upstream, client, bodyClosed, bodyDone,
                   handlerReturned, fetched, rbuf, line, wbuf, lineFlushes, clientGone>>

(* Mutation of StreamFlush: the loop goes on without flushing. *)
StreamNoFlush ==
    /\ pc = "streaming" /\ spc = "flush"
    /\ lineFlushes' = 0
    /\ spc' = "read"
    /\ UNCHANGED <<env, pc, stages, reqVars, upstream, client, bodyClosed, bodyDone,
                   handlerReturned, fetched, rbuf, line, wbuf, streamEnd, clientGone>>

(* w.Flush() after the write, and the second w.Flush() when the line is blank. *)
StreamFlush ==
    /\ pc = "streaming" /\ spc = "flush"
    /\ ~clientGone
    /\ client' = [client EXCEPT !.body = RawBody(client.body.text \o wbuf)]
    /\ wbuf' = <<>>
    /\ lineFlushes' = IF IsBlank(line) THEN 2 ELSE 1
    /\ spc' = "read"
    /\ UNCHANGED <<env, pc, stages, reqVars, upstream, bodyClosed, bodyDone,
                   handlerReturned, fetched, rbuf, line, streamEnd, clientGone>>

(* w.Flush() fails: the loop breaks. *)
StreamFlushFails ==
    /\ pc = "streaming" /\ spc = "flush"
    /\ clientGone
    /\ streamEnd' = "flush"
    /\ spc' = "done"
    /\ UNCHANGED <<env, pc, stages, reqVars, upstream, client, bodyClosed, bodyDone,
                   handlerReturned, fetched, rbuf, line, wbuf, lineFlushes, clientGone>>

(* The callback and the handler have both finished: the response is complete. *)
StreamComplete ==
    /\ pc = "streaming" /\ spc = "done"
    /\ handlerReturned
    /\ stages' = Append(stages, "COMPLETE")
    /\ pc' = "complete"
    /\ UNCHANGED <<env, reqVars, upstream, client, bodyClosed, bodyDone,
                   handlerReturned, streamVars, clientGone>>

(* The server is ready for the next request; nothing of the finished one is kept. *)
NextRequest ==
    /\ pc = "complete"
    /\ pc' = "idle"
    /\ stages' = <<>>
    /\ inbound' = NoRequest
    /\ outbound' = NoOutbound
    /\ isStreaming' = FALSE
    /\ calls' = 0
    /\ upstream' = NoUpstream
    /\ client' = NoResponse
    /\ bodyClosed' = FALSE
    /\ bodyDone' = FALSE
    /\ handlerReturned' = FALSE
    /\ spc' = "none"
    /\ fetched' = 0
    /\ rbuf' = <<>>
    /\ line' = <<>>
    /\ wbuf' = <<>>
    /\ lineFlushes' = 0
    /\ streamEnd' = ""
    /\ clientGone' = FALSE
    /\ UNCHANGED env

Next ==
    \/ Receive
    \/ Do
    \/ DoFails
    \/ RespondBuffered
    \/ RespondStreaming
    \/ HandlerReturn
    \/ ClientDisconnect
    \/ StreamFill
    \/ StreamReadLine
    \/ StreamReadEnd
    \/ StreamWrite
    \/ StreamWriteFails
    \/ StreamFlush
    \/ StreamFlushFails
    \/ StreamComplete
    \/ NextRequest

Spec == Init /\ [][Next]_vars

(* One step of the stream writer callback. *)
StreamStep ==
    \/ StreamFill
    \/ StreamReadLine
    \/ StreamReadEnd
    \/ StreamWrite
    \/ StreamWriteFails
    \/ StreamFlush
    \/ StreamFlushFails

(* The work of a streaming response goes on while there is some to do: the
   callback goroutine and the handler are scheduled, every read of the upstream
   body and every write to the client returns, and the server finishes the
   response once both have ended. No new request need arrive and the client
   need not go away. *)
StreamProgress == StreamStep \/ HandlerReturn \/ StreamComplete

FairSpec == Spec /\ WF_vars(StreamProgress)
(* ====================== properties ====================== *)
(* What the properties say about the headers a client sent, read off the
   request as sent: the values of the lines whose name, compared without
   regard to case, is the given lower-case name. *)
RECURSIVE SentValues(_, _)
SentValues(wire, lowerName) ==
    IF wire = <<>> THEN <<>>
    ELSE IF ToLower(Head(wire).name) = lowerName
         THEN <<Head(wire).value>> \o SentValues(Tail(wire), lowerName)
         ELSE SentValues(Tail(wire), lowerName)
FirstSent(wire, lowerName) ==
    IF SentValues(wire, lowerName) = <<>> THEN EmptyString
    ELSE Head(SentValues(wire, lowerName))

IsPrefix(p, s) == Len(p) <= Len(s) /\ SubSeq(s, 1, Len(p)) = p
InStages(s) == \E i \in 1..Len(stages) : stages[i] = s
HasRequest == inbound.route # "none"
SecretSent == FirstSent(inbound.headers, L_xproxyauth) = authToken
Credential == env[ApiKeyEnv(inbound.route)]
ExcludedLower ==
    {L_host, L_authorization, L_xproxyauth, L_xapikey, L_contentlength, L_connection}

(* C1: a request whose X-Proxy-Auth value differs from the secret (a missing
   header included) is answered 401 {"error":"Unauthorized"}; it reaches no
   later stage, builds no outbound request and makes no upstream call. A
   request that carries the secret goes on to the routed handler. No upstream
   call is ever made for a request that was not authenticated. *)
C1_AuthGate ==
    /\ (HasRequest /\ ~SecretSent) =>
          /\ pc = "complete"
          /\ client.status = 401
          /\ client.body = JsonBody("error", <<"Unauthorized">>)
          /\ stages = <<"RECEIVED", "REJECTED_AUTH">>
          /\ ~outbound.built
          /\ calls = 0
    /\ (HasRequest /\ SecretSent) =>
          /\ Len(stages) >= 3
          /\ stages[2] = "AUTHENTICATED"
          /\ stages[3] \in {"ROUTED", "HEALTH"}
          /\ client.status # 401
    /\ calls > 0 => (Len(stages) >= 2 /\ stages[2] = "AUTHENTICATED")

(* C1 witness: a request to a provider without the auth header was rejected. *)
C1_Witness ==
    /\ inbound.route = "anthropic"
    /\ SentValues(inbound.headers, L_xproxyauth) = <<>>
    /\ Len(inbound.headers) > 0
    /\ client.status = 401

(* C2: the outbound request has no header named Host, X-Proxy-Auth,
   Content-Length or Connection in any letter case, and a header named
   Authorization or X-Api-Key only with the single value the proxy injects
   from the provider credential: nothing the client sent under the six names
   reaches the upstream. *)
C2_ExcludedHeadersNotCopied ==
    outbound.built =>
        \A k \in DOMAIN outbound.header :
            ToLower(k) \in ExcludedLower =>
                \/ /\ ToLower(k) = L_authorization
                   /\ outbound.header[k] = <<BearerPrefix \o Credential>>
                \/ /\ ToLower(k) = L_xapikey
                   /\ outbound.header[k] = <<Credential>>

(* C2 witness: a request that sent HOST and Content-Length was transformed. *)
C2_Witness ==
    /\ outbound.built
    /\ \E i \in 1..Len(inbound.headers) : inbound.headers[i].name = N_HOST
    /\ SentValues(inbound.headers, L_contentlength) # <<>>

(* C3: the credential is injected by provider alone. anthropic: x-api-key is
   the raw credential, anthropic-version is the single value 2023-06-01 and
   there is no Authorization header. openai, nebius, deepseek: Authorization is
   "Bearer " + credential and there is no x-api-key header. *)
C3_CredentialInjection ==
    outbound.built =>
        IF inbound.route = "anthropic"
        THEN /\ HeaderValues(outbound.header, N_xapikey) = <<Credential>>
             /\ HeaderValues(outbound.header, N_anthropicversion) = <<AnthropicVersion>>
             /\ HeaderValues(outbound.header, N_Authorization) = <<>>
        ELSE /\ inbound.route \in {"openai", "nebius", "deepseek"}
             /\ HeaderValues(outbound.header, N_Authorization)
                    = <<BearerPrefix \o Credential>>
             /\ HeaderValues(outbound.header, N_xapikey) = <<>>

(* C3 witness: an anthropic request that sent its own anthropic-version and an
   Authorization header was transformed. *)
C3_Witness ==
    /\ outbound.built
    /\ inbound.route = "anthropic"
    /\ SentValues(inbound.headers, ToLower(N_anthropicversion)) # <<>>
    /\ SentValues(inbound.headers, L_authorization) # <<>>

L_accept == ToLower(N_Accept)
L_contenttype == ToLower(N_ContentType)
L_anthropicbeta == ToLower(N_AnthropicBeta)
HasResponse == upstream.status # 0
Relayed == { i \in 1..Len(stages) : stages[i] \in {"STREAMING", "BUFFERED"} }

(* C4: the relay mode is decided once per upstream response: streaming if and
   only if the inbound Accept value contains text/event-stream and the upstream
   Content-Type value contains text/event-stream, buffered in the three other
   cases, and never both. (Of a repeated header the value read is the first.) *)
C4_RelayMode ==
    /\ pc = "transformed" =>
          (isStreaming <=> Contains(FirstSent(inbound.headers, L_accept), SSE))
    /\ HasResponse =>
          /\ InStages("STREAMING") <=>
                (isStreaming /\ Contains(FirstSent(upstream.headers, L_contenttype), SSE))
          /\ InStages("BUFFERED") <=> ~InStages("STREAMING")
          /\ Cardinality(Relayed) = 1
    /\ ~HasResponse => Relayed = {}

(* C4 witness: the upstream answered with an event stream to a request that
   did not accept one, and the response was relayed buffered. *)
C4_Witness ==
    /\ HasResponse
    /\ ~isStreaming
    /\ Contains(FirstSent(upstream.headers, L_contenttype), SSE)
    /\ InStages("BUFFERED")

WholeLines(bytes) == bytes = <<>> \/ bytes[Len(bytes)] = "\n"

(* C5: in streaming mode what was written to the client, flushed or not, is
   at every point a prefix of the upstream body made of whole lines; the line
   in hand is the next piece of the body; at most one line is ever unflushed,
   and when the next line is read the previous one has been flushed. *)
C5_StreamOrder ==
    InStages("STREAMING") =>
        /\ IsPrefix(client.body.text \o wbuf, upstream.body)
        /\ WholeLines(client.body.text)
        /\ wbuf \in {<<>>, line}
        /\ spc = "write" => IsPrefix(client.body.text \o line, upstream.body)
        /\ spc \in {"read", "write"} => wbuf = <<>>
        /\ (spc = "read" /\ line # <<>>) => lineFlushes >= 1

(* C5 witness: two lines were delivered, the loop is about to read a third. *)
C5_Witness ==
    /\ InStages("STREAMING")
    /\ spc = "read"
    /\ client.body.text = <<"d", "\n", "\n">>
    /\ lineFlushes = 2

(* C6: when the copy loop ends at the upstream's end-of-input, no client
   write or flush having failed, the client has received exactly the bytes of
   the upstream body. *)
C6_StreamByteFaithful ==
    (InStages("STREAMING") /\ spc = "done" /\ streamEnd = "eof") =>
        client.body.text = upstream.body

(* C7: the upstream body is closed only after it was read to end-of-input or
   to a read error, and in streaming mode not before the stream writer
   callback has finished. *)
C7_BodyReadBeforeClose ==
    bodyClosed => (bodyDone /\ (InStages("STREAMING") => spc = "done"))

(* C8: an authorized request to a provider whose credential is empty is
   answered 500 {"error":"<key name> not configured"} with no upstream call;
   in the same process an authorized request to a provider whose credential is
   set is built and handed to the upstream, whatever the other credentials are
   and whatever requests came before. *)
C8_MissingCredential ==
    (HasRequest /\ SecretSent /\ inbound.route \in Providers) =>
        IF Credential = EmptyString
        THEN /\ pc = "complete"
             /\ client.status = 500
             /\ client.body =
                    JsonBody("error", <<ApiKeyEnv(inbound.route), " not configured">>)
             /\ ~outbound.built
             /\ calls = 0
             /\ ~InStages("FORWARDED")
        ELSE /\ client.body.text # <<ApiKeyEnv(inbound.route), " not configured">>
             /\ (\A i \in 1..Len(inbound.path) : inbound.path[i] # "%zz") =>
                    (pc = "transformed" /\ outbound.built /\ ENABLED Do)

(* C8 witness: nebius has no credential and answered 500 while openai's
   credential is set. *)
C8_Witness ==
    /\ inbound.route = "nebius"
    /\ SecretSent
    /\ env["NEBIUS_API_KEY"] = EmptyString
    /\ env["OPENAI_API_KEY"] # EmptyString
    /\ client.status = 500

PathParses(path) == \A i \in 1..Len(path) : path[i] # "%zz"
ForwardedRight ==
    /\ pc = "transformed"
    /\ outbound.built
    /\ outbound.url = TargetBase(inbound.route) \o <<"/">> \o inbound.path
    /\ outbound.method = inbound.method
    /\ outbound.body = inbound.body
    /\ \A q \in Providers : IsPrefix(TargetBase(q), outbound.url) => q = inbound.route

(* C9 as claimed: for every remainder path, an authorized request to a
   provider whose credential is set produces the outbound request to
   base + "/" + remainder with the inbound method and body. *)
C9_EveryPathForwarded ==
    (HasRequest /\ SecretSent /\ inbound.route \in Providers
        /\ Credential # EmptyString) => ForwardedRight

(* C9 amended: that holds for every remainder path with which the target
   parses as a URL; with any other the request is answered 500 and no outbound
   request is made. One upstream call at most is made per request, and exactly
   one once the request is forwarded. *)
C9_Forwarding ==
    /\ (HasRequest /\ SecretSent /\ inbound.route \in Providers
            /\ Credential # EmptyString) =>
          IF PathParses(inbound.path) THEN ForwardedRight
          ELSE /\ pc = "complete"
               /\ client.status = 500
               /\ ~outbound.built
               /\ calls = 0
    /\ calls = (IF pc = "forwarded" \/ InStages("FORWARDED")
                    \/ InStages("REJECTED_UPSTREAM") THEN 1 ELSE 0)

(* C9 witness: a POST with a body to deepseek was transformed. *)
C9_Witness ==
    /\ outbound.built
    /\ inbound.route = "deepseek"
    /\ inbound.method = "POST"
    /\ inbound.body # EmptyString
    /\ outbound.url = <<"https://api.deepseek.com", "/", "v1", "/", "messages">>

(* C10: on an anthropic request the outbound anthropic-beta header holds
   exactly the values the inbound request had, in order: none when the header
   was absent, the empty value, one value, or several. *)
C10_BetaPassthrough ==
    (outbound.built /\ inbound.route = "anthropic") =>
        HeaderValues(outbound.header, N_anthropicbeta)
            = SentValues(inbound.headers, L_anthropicbeta)

(* The client response carries exactly the upstream's header names, each with
   all the values the upstream sent under it, in order. *)
UpstreamHeadersKept ==
    /\ \A i \in 1..Len(upstream.headers) :
          \E k \in DOMAIN client.headers : ToLower(k) = ToLower(upstream.headers[i].name)
    /\ \A k \in DOMAIN client.headers :
          client.headers[k] = SentValues(upstream.headers, ToLower(k))

BufferedOk == InStages("BUFFERED") /\ pc = "complete" /\ ~upstream.fail

(* C11: in buffered mode, when the upstream body was read without error, the
   client response has the upstream's status, every upstream header with all
   of its values (repeated names kept) and the upstream's body byte for byte. *)
C11_BufferedVerbatim ==
    BufferedOk =>
        /\ client.status = upstream.status
        /\ UpstreamHeadersKept
        /\ client.body = RawBody(upstream.body)

(* A response made by the proxy alone: an error status, the JSON error body
   and no header but the Content-Type of that body. *)
ProxyError ==
    /\ client.status \in {401, 500, 502}
    /\ client.body.kind = "json" /\ client.body.key = "error"
    /\ client.headers = HeaderSet(<<>>, N_ContentType, JSONType)

(* A response that is the upstream's: its status, its headers, its body. *)
FaithfulRelay ==
    /\ HasResponse
    /\ client.status = upstream.status
    /\ UpstreamHeadersKept
    /\ client.body = RawBody(upstream.body)

(* C12: every response a client receives from a provider route is either a
   proxy-generated error (status 401, 500 or 502, headers and JSON error body
   all from the proxy) or a faithful relay of the upstream response (status,
   headers and body all the upstream's), never both and never a mixture; in
   particular a failed read of the buffered body gives the 500 JSON error
   without upstream headers. *)
C12_ErrorOrFaithful ==
    (pc = "complete" /\ ~InStages("HEALTH")) =>
        /\ ProxyError \/ FaithfulRelay
        /\ ~(ProxyError /\ FaithfulRelay)
        /\ InStages("REJECTED_READ") => ProxyError

LastStage == LastOf(stages)

(* C13: a request handed to the forwarder causes exactly one upstream call
   attempt, whatever its outcome; when the attempt fails at transport level the
   response is 502 with a JSON error body holding the transport error text, no
   upstream response is relayed and the request ends in that state. *)
C13_SingleAttempt ==
    /\ calls <= 1
    /\ (InStages("TRANSFORMED") /\ pc # "transformed") => calls = 1
    /\ InStages("REJECTED_UPSTREAM") =>
          /\ LastStage = "REJECTED_UPSTREAM"
          /\ pc = "complete"
          /\ calls = 1
          /\ ~HasResponse
          /\ client.status = 502
          /\ client.body.kind = "json" /\ client.body.key = "error"
          /\ \E e \in TransportErrors : Contains(client.body.text, <<e>>)

(* C13 witness: the single call of a transformed request failed. *)
C13_Witness ==
    /\ InStages("TRANSFORMED")
    /\ LastStage = "REJECTED_UPSTREAM"
    /\ calls = 1
    /\ client.status = 502

L_cachecontrol == ToLower(N_CacheControl)
L_xaccelbuffering == ToLower(N_XAccelBuffering)
ClaimedOverrides == {L_contenttype, L_cachecontrol, L_xaccelbuffering}
StreamingOverrides == ClaimedOverrides \cup {L_connection}

(* The three overrides the streaming branch is said to apply. *)
ThreeOverrides ==
    /\ HeaderValues(client.headers, N_ContentType) = <<SSE>>
    /\ HeaderValues(client.headers, N_CacheControl) = << <<"no-cache">> >>
    /\ HeaderValues(client.headers, N_XAccelBuffering) = << <<"no">> >>

(* Every header the upstream sent under a name outside names reaches the client
   with the upstream's values. *)
OthersUnchanged(names) ==
    \A i \in 1..Len(upstream.headers) :
        ToLower(upstream.headers[i].name) \notin names =>
            HeaderValues(client.headers, upstream.headers[i].name)
                = SentValues(upstream.headers, ToLower(upstream.headers[i].name))

(* The client response has no header name outside names that the upstream did
   not send. *)
NoOtherNames(names) ==
    \A k \in DOMAIN client.headers :
        ToLower(k) \notin names => SentValues(upstream.headers, ToLower(k)) # <<>>

(* In buffered mode a header name holds no value the upstream did not send. *)
NoOverrideApplied ==
    \A k \in DOMAIN client.headers :
        \A j \in 1..Len(client.headers[k]) :
            \E i \in 1..Len(upstream.headers) :
                /\ ToLower(upstream.headers[i].name) = ToLower(k)
                /\ upstream.headers[i].value = client.headers[k][j]

(* C14 as stated: in streaming mode the client response has Content-Type
   text/event-stream alone, Cache-Control: no-cache and X-Accel-Buffering: no,
   the upstream's status, and every other header the upstream sent unchanged;
   in buffered mode no override is applied. *)
C14_OnlyThreeOverrides ==
    /\ InStages("STREAMING") =>
          /\ ThreeOverrides
          /\ client.status = upstream.status
          /\ OthersUnchanged(ClaimedOverrides)
    /\ BufferedOk => NoOverrideApplied

(* C14, amended: in streaming mode the client response has Content-Type
   text/event-stream alone, Cache-Control: no-cache, X-Accel-Buffering: no and
   also Connection: keep-alive, whatever the upstream sent under these four
   names; the status is the upstream's and every header under another name is
   the upstream's; in buffered mode no override is applied. *)
C14_StreamingHeaders ==
    /\ InStages("STREAMING") =>
          /\ ThreeOverrides
          /\ HeaderValues(client.headers, N_Connection) = << <<"keep-alive">> >>
          /\ client.status = upstream.status
          /\ OthersUnchanged(StreamingOverrides)
          /\ NoOtherNames(StreamingOverrides)
    /\ BufferedOk => NoOverrideApplied

(* C14 witness: a streaming response whose upstream sent Connection: close. *)
C14_Witness ==
    /\ InStages("STREAMING")
    /\ SentValues(upstream.headers, L_connection) = << <<"close">> >>
    /\ client.status = 429

HealthRequest == inbound.route = "health" /\ inbound.method = "GET"

(* C15 as stated: every GET /health request is answered 200 {"status":"ok"}
   and causes no upstream call. *)
C15_HealthAlwaysOk ==
    HealthRequest =>
        /\ client.status = 200
        /\ client.body = JsonBody("status", <<"ok">>)
        /\ calls = 0

(* C15, amended: a GET /health request carrying the secret in X-Proxy-Auth is
   answered 200 {"status":"ok"}; one without the secret is answered
   401 {"error":"Unauthorized"} by the auth middleware, which runs before the
   health route; neither builds an outbound request nor causes an upstream
   call. *)
C15_Health ==
    HealthRequest =>
        /\ pc = "complete"
        /\ calls = 0 /\ ~outbound.built /\ ~HasResponse
        /\ IF SecretSent
           THEN /\ client.status = 200
                /\ client.body = JsonBody("status", <<"ok">>)
           ELSE /\ client.status = 401
                /\ client.body = JsonBody("error", <<"Unauthorized">>)

(* C15 witness: a GET /health request with the secret was answered 200. *)
C15_Witness ==
    /\ HealthRequest
    /\ SecretSent
    /\ client.status = 200
    /\ LastStage = "HEALTH"

PreForward == <<"RECEIVED", "AUTHENTICATED", "ROUTED", "TRANSFORMED">>
Forwarded == Append(PreForward, "FORWARDED")

(* The stage sequences of the spec's state machine: the main path in either
   relay mode and the three early exits, each from a stage before FORWARDED. *)
ClaimedPaths ==
    { <<"RECEIVED", "REJECTED_AUTH">>,
      <<"RECEIVED", "AUTHENTICATED", "ROUTED", "REJECTED_CONFIG">>,
      Append(PreForward, "REJECTED_UPSTREAM"),
      Forwarded \o <<"BUFFERED", "COMPLETE">>,
      Forwarded \o <<"STREAMING", "COMPLETE">> }

(* Exits the spec's state machine does not list: the health route, a request
   that cannot be built, and a failed read of the buffered body. *)
OtherExits ==
    { <<"RECEIVED", "AUTHENTICATED", "HEALTH">>,
      <<"RECEIVED", "AUTHENTICATED", "ROUTED", "REJECTED_BUILD">> }
ReadErrorPath == Forwarded \o <<"BUFFERED", "REJECTED_READ">>

OnPath(paths) == \E p \in paths : IsPrefix(stages, p)
Ended == pc = "complete"

(* C16 as stated (the health route and a request that cannot be built set
   aside): the stages of a request are run in the order of the state machine,
   and a request that reached FORWARDED ends in COMPLETE with the upstream's
   status. *)
C16_ForwardedCompletes ==
    /\ OnPath(ClaimedPaths \cup OtherExits)
    /\ (Ended /\ InStages("FORWARDED")) =>
          (LastStage = "COMPLETE" /\ client.status = upstream.status)

(* C16, amended: the stages of a request are a prefix of one of the paths
   RECEIVED, AUTHENTICATED, ROUTED, TRANSFORMED, FORWARDED, STREAMING or
   BUFFERED, COMPLETE, with the exits REJECTED_AUTH from RECEIVED, the health
   answer from AUTHENTICATED, REJECTED_CONFIG and the request-build error from
   ROUTED, REJECTED_UPSTREAM from TRANSFORMED, and the read error from BUFFERED;
   the request has ended exactly when the path is complete; a request ending in
   COMPLETE has the upstream's status, one ending in the read error has 500; a
   step only ever appends stages to the path of the request. *)
C16_StageOrder ==
    /\ [](/\ OnPath(ClaimedPaths \cup OtherExits \cup {ReadErrorPath})
          /\ Ended <=> stages \in ClaimedPaths \cup OtherExits \cup {ReadErrorPath}
          /\ (Ended /\ LastStage = "COMPLETE") => client.status = upstream.status
          /\ LastStage = "REJECTED_READ" =>
                (client.status = 500 /\ client.body.kind = "json"))
    /\ [][stages' = <<>> \/ IsPrefix(stages, stages')]_vars

(* C16 witness: a request that reached FORWARDED and BUFFERED ended in the
   read error with status 500, the upstream's status being 200. *)
C16_Witness ==
    /\ stages = ReadErrorPath
    /\ Ended
    /\ client.status = 500
    /\ upstream.status = 200

LoopEnds == {"eof", "read", "write", "flush"}

(* C17: the copy loop is left exactly when a read returns end-of-input or an
   error or a write or flush fails; once left, nothing more is read from the
   upstream or written to the client; while the response is streamed, status
   and headers of the client response do not change and its body is never a
   JSON error; and every streaming request leaves the loop and completes. *)
C17_StreamLoopEnds ==
    /\ [](pc = "streaming" => (spc = "done" <=> streamEnd \in LoopEnds))
    /\ [][(spc = "done" /\ pc' # "idle") =>
            /\ spc' = "done" /\ streamEnd' = streamEnd
            /\ fetched' = fetched /\ rbuf' = rbuf
            /\ wbuf' = wbuf /\ client' = client]_vars
    /\ [][pc = "streaming" =>
            /\ client'.status = client.status
            /\ client'.headers = client.headers
            /\ client'.body.kind = "raw"]_vars
    /\ []((pc = "complete" /\ InStages("STREAMING")) => spc = "done")
    /\ (pc = "streaming") ~> (pc = "complete")

(* C17 witness: the loop was left on a failed flush after one line had reached
   the client, and the request completed with the upstream's status. *)
C17_Witness ==
    /\ LastStage = "COMPLETE" /\ InStages("STREAMING")
    /\ streamEnd = "flush"
    /\ client.body.text # <<>>
    /\ client.status = upstream.status

(* C18 as stated: once the client has gone away, the relay of a streaming
   response still ends only when a read of the upstream returns end-of-input or
   an error; the client's going away does not stop it. *)
C18_UpstreamRunsOn ==
    (InStages("STREAMING") /\ clientGone /\ spc = "done") =>
        streamEnd \in {"eof", "read"}

(* C18, amended: the step in which the client goes away changes nothing of the
   upstream call (nothing is cancelled or closed, the loop is where it was);
   but a flush after it always fails and breaks the loop, a write may, and a
   loop broken by a write or flush error has not read the upstream to its end
   and reads nothing more; the loop is broken that way only when the client
   has gone away. *)
C18_DisconnectStopsRelay ==
    /\ [][(clientGone' /\ ~clientGone) =>
            /\ bodyClosed' = bodyClosed /\ bodyDone' = bodyDone
            /\ fetched' = fetched /\ rbuf' = rbuf
            /\ spc' = spc /\ streamEnd' = streamEnd
            /\ calls' = calls /\ pc' = pc]_vars
    /\ [][(clientGone /\ spc = "flush" /\ spc' # spc) =>
            (spc' = "done" /\ streamEnd' = "flush")]_vars
    /\ [](streamEnd \in {"write", "flush"} =>
            (clientGone /\ spc = "done" /\ ~bodyDone))
    /\ [][(streamEnd \in {"write", "flush"} /\ pc' # "idle") =>
            (fetched' = fetched /\ ~bodyDone')]_vars

(* C18 witness: the client went away, the next flush failed and the loop was
   left while the upstream body still had bytes that were never fetched. *)
C18_Witness ==
    /\ InStages("STREAMING")
    /\ clientGone
    /\ streamEnd = "flush"
    /\ fetched < Len(upstream.body)
    /\ ~bodyDone

L_anthropicversion == ToLower(N_anthropicversion)
InjectedLower ==
    IF inbound.route = "anthropic" THEN {L_anthropicversion, L_anthropicbeta} ELSE {}

(* Every inbound header under a name outside names is on the outbound request
   with the values the client sent, in order. *)
CopiedExcept(names) ==
    \A i \in 1..Len(inbound.headers) :
        ToLower(inbound.headers[i].name) \notin names =>
            HeaderValues(outbound.header, inbound.headers[i].name)
                = SentValues(inbound.headers, ToLower(inbound.headers[i].name))

(* C19 as stated (the anthropic-beta header, settled under C10, set aside):
   every inbound header outside the exclusion set and other than Content-Type
   is on the outbound request with the same values in the same order, and the
   outbound Content-Type is the single value application/json. *)
C19_AllHeadersCopied ==
    outbound.built =>
        /\ CopiedExcept(ExcludedLower \cup {L_contenttype, L_anthropicbeta})
        /\ HeaderValues(outbound.header, N_ContentType) = <<JSONType>>

(* C19, amended: every inbound header outside the exclusion set, other than
   Content-Type and, on the anthropic route, other than anthropic-version and
   anthropic-beta, is on the outbound request with the same values in the same
   order; the outbound Content-Type is the single value application/json; on
   the anthropic route anthropic-version is the single value 2023-06-01 and
   anthropic-beta is the first inbound value alone when that value is not
   empty, the inbound values as sent otherwise. *)
C19_HeaderCopy ==
    outbound.built =>
        /\ CopiedExcept(ExcludedLower \cup {L_contenttype} \cup InjectedLower)
        /\ HeaderValues(outbound.header, N_ContentType) = <<JSONType>>
        /\ inbound.route = "anthropic" =>
              /\ HeaderValues(outbound.header, N_anthropicversion) = <<AnthropicVersion>>
              /\ HeaderValues(outbound.header, N_anthropicbeta)
                    = IF FirstSent(inbound.headers, L_anthropicbeta) # EmptyString
                      THEN <<FirstSent(inbound.headers, L_anthropicbeta)>>
                      ELSE SentValues(inbound.headers, L_anthropicbeta)

(* C19 witness: a request that sent Accept twice was transformed. *)
C19_Witness ==
    /\ outbound.built
    /\ Len(SentValues(inbound.headers, L_accept)) = 2
    /\ Len(HeaderValues(outbound.header, N_Accept)) = 2

====
